---- MODULE Spec2Model ----
(***************************************************************************)
(* A model of the text-to-image web application: the retrying inference    *)
(* client query_hf_api (utils.py and app.py), the prompt enhancer          *)
(* craft_realistic_prompt, the image codec convert_image and the UI        *)
(* handler generate_image (app.py).                                        *)
(*                                                                         *)
(* A Python str is the sequence of its Unicode code points, bytes are       *)
(* sequences of integers, and an Optional value is a sequence of length 0  *)
(* (None) or 1.  Every invocation has its own frame of local variables;    *)
(* the process environment (os.environ) is the only state outside frames.  *)
(***************************************************************************)
EXTENDS Integers, Sequences, FiniteSets, TLC

(* ------------------------------ bounds -------------------------------- *)

\* Longest prompt drawn as an input.
MaxPromptLen == 2

\* Number of invocations that may run at the same time.
NumCalls == 2

\* Largest value of the max_retries parameter drawn as an input.
MaxRetriesParam == 3

(* ------------------------- program constants -------------------------- *)

\* max_retries: int = 3
DefaultMaxRetries == 3

\* time.sleep(5 * (attempt + 1))
BackoffUnit == 5

\* if response.status_code == 503
ServiceUnavailable == 503

Calls == 1..NumCalls

(* ------------------------------ strings ------------------------------- *)

\* The printable ASCII characters in code point order: U+0020 to U+005F,
\* and U+0061 to U+007E (U+0060 cannot be written in a string here).
AsciiLow ==
    <<" ", "!", "\"", "#", "$", "%", "&", "'", "(", ")", "*", "+", ",", "-", ".", "/",
      "0", "1", "2", "3", "4", "5", "6", "7", "8", "9", ":", ";", "<", "=", ">", "?",
      "@", "A", "B", "C", "D", "E", "F", "G", "H", "I", "J", "K", "L", "M", "N", "O",
      "P", "Q", "R", "S", "T", "U", "V", "W", "X", "Y", "Z", "[", "\\", "]", "^", "_">>

AsciiHigh ==
    <<"a", "b", "c", "d", "e", "f", "g", "h", "i", "j", "k", "l", "m", "n", "o",
      "p", "q", "r", "s", "t", "u", "v", "w", "x", "y", "z", "{", "|", "}", "~">>

\* ord(ch) of a printable ASCII character.
Ord(ch) ==
    IF \E i \in DOMAIN AsciiLow : AsciiLow[i] = ch
    THEN 31 + CHOOSE i \in DOMAIN AsciiLow : AsciiLow[i] = ch
    ELSE 96 + CHOOSE i \in DOMAIN AsciiHigh : AsciiHigh[i] = ch

\* The str written as the tuple of its (printable ASCII) characters.
Str(chars) == [i \in DOMAIN chars |-> Ord(chars[i])]

UpperAlphabet ==
    Str(<<"A", "B", "C", "D", "E", "F", "G", "H", "I", "J", "K", "L", "M",
      "N", "O", "P", "Q", "R", "S", "T", "U", "V", "W", "X", "Y", "Z">>)

LowerAlphabet ==
    Str(<<"a", "b", "c", "d", "e", "f", "g", "h", "i", "j", "k", "l", "m",
      "n", "o", "p", "q", "r", "s", "t", "u", "v", "w", "x", "y", "z">>)

\* The code points str.strip() without arguments removes, those for which
\* str.isspace() is true: U+0009..U+000D, U+001C..U+001F, U+0020, U+0085,
\* U+00A0, U+1680, U+2000..U+200A, U+2028, U+2029, U+202F, U+205F, U+3000.
Whitespace ==
    (9..13) \cup (28..32) \cup {133, 160, 5760} \cup (8192..8202)
        \cup {8232, 8233, 8239, 8287, 12288}

\* Case mapping of one code point.  Only the ASCII letters are mapped: the
\* format names drawn as inputs are ASCII.
LowerChar(ch) ==
    IF \E i \in DOMAIN UpperAlphabet : UpperAlphabet[i] = ch
    THEN LowerAlphabet[CHOOSE i \in DOMAIN UpperAlphabet : UpperAlphabet[i] = ch]
    ELSE ch

UpperChar(ch) ==
    IF \E i \in DOMAIN LowerAlphabet : LowerAlphabet[i] = ch
    THEN UpperAlphabet[CHOOSE i \in DOMAIN LowerAlphabet : LowerAlphabet[i] = ch]
    ELSE ch

\* str.lower()
Lower(s) == [i \in DOMAIN s |-> LowerChar(s[i])]

\* str.upper(), as PIL's Image.save applies it to the format name
Upper(s) == [i \in DOMAIN s |-> UpperChar(s[i])]

RECURSIVE LStrip(_)
LStrip(s) ==
    IF s = <<>> THEN s
    ELSE IF Head(s) \in Whitespace THEN LStrip(Tail(s)) ELSE s

RECURSIVE RStrip(_)
RStrip(s) ==
    IF s = <<>> THEN s
    ELSE IF s[Len(s)] \in Whitespace THEN RStrip(SubSeq(s, 1, Len(s) - 1)) ELSE s

\* str.strip()
Strip(s) == RStrip(LStrip(s))

\* Python truthiness of a str: "not s"
Falsy(s) == s = <<>>

RECURSIVE Join(_, _)
\* sep.join(parts)
Join(sep, parts) ==
    IF parts = <<>> THEN <<>>
    ELSE IF Len(parts) = 1 THEN parts[1]
    ELSE parts[1] \o sep \o Join(sep, Tail(parts))

(* --------------------------- prompt enhancer -------------------------- *)

realistic_modifiers ==
    << Str(<<"p", "h", "o", "t", "o", "r", "e", "a", "l", "i", "s", "t", "i", "c">>),
       Str(<<"h", "i", "g", "h", " ", "r", "e", "s", "o", "l", "u", "t", "i", "o", "n">>),
       Str(<<"s", "h", "a", "r", "p", " ", "f", "o", "c", "u", "s">>),
       Str(<<"p", "r", "o", "f", "e", "s", "s", "i", "o", "n", "a", "l", " ",
         "p", "h", "o", "t", "o", "g", "r", "a", "p", "h", "y">>),
       Str(<<"n", "a", "t", "u", "r", "a", "l", " ", "l", "i", "g", "h", "t", "i", "n", "g">>),
       Str(<<"d", "e", "t", "a", "i", "l", "e", "d", " ", "t", "e", "x", "t", "u", "r", "e", "s">>) >>

\* ", shot on professional camera, 8k resolution"
PromptSuffix ==
    Str(<<",", " ", "s", "h", "o", "t", " ", "o", "n", " ", "p", "r", "o", "f", "e",
      "s", "s", "i", "o", "n", "a", "l", " ", "c", "a", "m", "e", "r", "a", ",",
      " ", "8", "k", " ", "r", "e", "s", "o", "l", "u", "t", "i", "o", "n">>)

\* The enhanced prompt: faulty variant that puts the base prompt first.
craft_realistic_prompt_first(base_prompt) ==
    base_prompt \o Str(<<",", " ">>) \o Join(Str(<<" ">>), realistic_modifiers) \o PromptSuffix

\* f"{' '.join(realistic_modifiers)}, {base_prompt}, shot on professional camera, 8k resolution"
craft_realistic_prompt(base_prompt) ==
    Join(Str(<<" ">>), realistic_modifiers) \o Str(<<",", " ">>) \o base_prompt \o PromptSuffix

(* ----------------------------- environment ---------------------------- *)

\* A token value the environment or the .env file may hold.
SomeToken == Str(<<"h", "f", "_", "x">>)

\* os.environ["HF_TOKEN"]: unset, set to "", or set to a token.
EnvValues == {<<>>, << <<>> >>, <<SomeToken>>}

\* The HF_TOKEN entry of the .env file: absent or a token.
DotenvValues == {<<>>, <<SomeToken>>}

\* load_dotenv() (when python-dotenv is importable) sets a variable the
\* .env file names unless the environment already has it; ImportError is
\* caught and leaves the environment alone.
LoadDotenv(env, installed, file) ==
    IF installed /\ env = <<>> /\ file # <<>> THEN file ELSE env

\* os.getenv("HF_TOKEN") after load_dotenv(): None (<<>>) or <<value>>.
load_environment(env, installed, file) == LoadDotenv(env, installed, file)

\* "if not HF_TOKEN": faulty variant that only tests for None.
TokenMissingOnlyNone(tok) == tok = <<>>

\* "if not HF_TOKEN": None or the empty string.
TokenMissing(tok) == tok = <<>> \/ Falsy(tok[1])

(* ------------------------------ backend ------------------------------- *)

\* Response payloads: two decodable images (PNG signature byte first),
\* bytes that are no image, and an empty body.
ImgA == <<137, 1>>
ImgB == <<137, 2>>
Junk == <<0>>

\* requests.post raised a RequestException (connection error, timeout).
NetErr == [exc |-> TRUE, status |-> 0, content |-> <<>>]

Resp(status, content) == [exc |-> FALSE, status |-> status, content |-> content]

\* What one network call can produce.
Responses ==
    { NetErr,
      Resp(200, ImgA), Resp(200, ImgB), Resp(200, Junk),
      Resp(304, <<>>),
      Resp(404, Junk),
      Resp(ServiceUnavailable, Junk) }

\* The outcomes drawn when several invocations run at once.
ResponsesC == { NetErr, Resp(200, ImgA), Resp(ServiceUnavailable, Junk) }

\* The outcomes drawn when the two clients are run side by side.
ResponsesE ==
    { NetErr, Resp(200, ImgA), Resp(304, <<>>), Resp(404, Junk),
      Resp(ServiceUnavailable, Junk) }

\* response.raise_for_status(): raises HTTPError for 4xx and 5xx.
RaiseForStatus(status) == status >= 400 /\ status < 600

\* response.content, as "return response.content" hands it back: faulty
\* variant that re-encodes (drops the last byte of) the payload.
ReturnedContentTruncated(r) ==
    IF r.content = <<>> THEN <<>> ELSE SubSeq(r.content, 1, Len(r.content) - 1)

\* return response.content
ReturnedContent(r) == r.content

(* ------------------------ outcomes of a call -------------------------- *)

MsgEmptyPrompt == "Prompt cannot be empty"
MsgNoToken == "Hugging Face token not found. Set HF_TOKEN in .env or environment variables."
MsgFailed == "Failed to generate image after {max_retries} attempts: {e}"
MsgUnexpected == "Unexpected error in image generation"
MsgUnsupported == "Unsupported format. Choose from: png, jpg, jpeg, webp"
MsgUnidentified == "cannot identify image file"
MsgKeyError == "'JPG'"

\* The call has not finished.
NoOutcome == [kind |-> "none", exc |-> "", msg |-> "", cause |-> <<>>, value |-> <<>>]

\* return value
Return(value) ==
    [kind |-> "return", exc |-> "", msg |-> "", cause |-> <<>>, value |-> value]

\* raise exc(msg); cause is <<r>> when msg embeds the error e of response r.
Raise(exc, msg, cause) ==
    [kind |-> "raise", exc |-> exc, msg |-> msg, cause |-> cause, value |-> <<>>]

(* --------------------------- inference client ------------------------- *)

\* "if not prompt or not prompt.strip()": faulty variant without the strip() test.
PromptIsEmptyNoStrip(prompt) == Falsy(prompt)

\* if not prompt or not prompt.strip()
PromptIsEmpty(prompt) == Falsy(prompt) \/ Falsy(Strip(prompt))

\* "for attempt in range(max_retries)": faulty variant that runs one iteration more.
LoopContinuesOffByOne(attempt, max_retries) == attempt <= max_retries

\* for attempt in range(max_retries): the body runs for 0 <= attempt < max_retries
LoopContinues(attempt, max_retries) == attempt < max_retries

\* "5 * (attempt + 1)": faulty variant with a constant wait.
BackoffDelayConstant(attempt) == BackoffUnit

\* 5 * (attempt + 1)
BackoffDelay(attempt) == BackoffUnit * (attempt + 1)

\* "if attempt == max_retries - 1": faulty variant that gives up one attempt early.
LastAttemptEarly(attempt, max_retries) == attempt >= max_retries - 2

\* if attempt == max_retries - 1
LastAttempt(attempt, max_retries) == attempt = max_retries - 1

\* The "except RequestException" branch: faulty variant that gives up at once.
UtilsOnRequestExceptionNoRetry(attempt, max_retries, r) ==
    [step |-> "raise", dur |-> 0, out |-> Raise("RuntimeError", MsgFailed, <<r>>)]

\* The "except RequestException" branch: faulty variant whose wait before a
\* retry does not grow with the attempt.
UtilsOnRequestExceptionFixedWait(attempt, max_retries, r) ==
    IF attempt = max_retries - 1
    THEN [step |-> "raise", dur |-> 0,
          out |-> Raise("RuntimeError", MsgFailed, <<r>>)]
    ELSE [step |-> "sleep", dur |-> BackoffUnit, out |-> NoOutcome]

\* The "except RequestException" branch of utils.py: raise on the last
\* attempt, else wait before retrying.
UtilsOnRequestException(attempt, max_retries, r) ==
    IF LastAttempt(attempt, max_retries)
    THEN [step |-> "raise", dur |-> 0,
          out |-> Raise("RuntimeError", MsgFailed, <<r>>)]
    ELSE [step |-> "sleep", dur |-> BackoffDelay(attempt), out |-> NoOutcome]

\* One iteration of the utils.py loop: faulty variant that gives up on a 503.
UtilsAttemptNoRetryOn503(attempt, max_retries, r) ==
    IF r.exc THEN UtilsOnRequestException(attempt, max_retries, r)
    ELSE IF r.status = ServiceUnavailable
    THEN [step |-> "raise", dur |-> 0,
          out |-> Raise("RuntimeError", MsgFailed, <<r>>)]
    ELSE IF RaiseForStatus(r.status)
    THEN UtilsOnRequestException(attempt, max_retries, r)
    ELSE [step |-> "return", dur |-> 0, out |-> Return(ReturnedContent(r))]

\* One iteration of the utils.py loop on the outcome r of requests.post.
UtilsAttempt(attempt, max_retries, r) ==
    IF r.exc THEN UtilsOnRequestException(attempt, max_retries, r)
    ELSE IF r.status = ServiceUnavailable
    THEN [step |-> "sleep", dur |-> BackoffDelay(attempt), out |-> NoOutcome]
    ELSE IF RaiseForStatus(r.status)
    THEN UtilsOnRequestException(attempt, max_retries, r)
    ELSE [step |-> "return", dur |-> 0, out |-> Return(ReturnedContent(r))]

\* One iteration of the app.py loop: faulty variant without raise_for_status().
AppAttemptNoStatusCheck(attempt, max_retries, r) ==
    IF r.exc
    THEN IF LastAttempt(attempt, max_retries)
         THEN [step |-> "raise", dur |-> 0,
               out |-> Raise("RuntimeError", MsgFailed, <<r>>)]
         ELSE [step |-> "continue", dur |-> 0, out |-> NoOutcome]
    ELSE [step |-> "return", dur |-> 0, out |-> Return(ReturnedContent(r))]

\* One iteration of the app.py loop: no 503 branch, no sleep.
AppAttempt(attempt, max_retries, r) ==
    IF r.exc \/ RaiseForStatus(r.status)
    THEN IF LastAttempt(attempt, max_retries)
         THEN [step |-> "raise", dur |-> 0,
               out |-> Raise("RuntimeError", MsgFailed, <<r>>)]
         ELSE [step |-> "continue", dur |-> 0, out |-> NoOutcome]
    ELSE [step |-> "return", dur |-> 0, out |-> Return(ReturnedContent(r))]

\* "inputs" of the request body: the prompt (utils.py), the enhanced prompt (app.py).
PayloadInputs(client, prompt) ==
    IF client = "utils" THEN prompt ELSE craft_realistic_prompt(prompt)

(* ------------------------------ image codec --------------------------- *)

png == Str(<<"p", "n", "g">>)
jpg == Str(<<"j", "p", "g">>)
jpeg == Str(<<"j", "p", "e", "g">>)
webp == Str(<<"w", "e", "b", "p">>)

\* supported_formats.keys()
supported_formats == {png, jpg, jpeg, webp}

\* The encoders PIL registers under Image.SAVE that a supported name can
\* select: the key is the upper-cased format name, and "JPG" is not a key.
SaveRegistry ==
    {Upper(png), Upper(jpeg), Upper(webp), Str(<<"G", "I", "F">>), Str(<<"B", "M", "P">>)}

\* Output formats drawn as inputs: the dropdown's choices, lower-case and
\* alias spellings, and names outside the supported set.
Formats ==
    { Str(<<"P", "N", "G">>), Str(<<"J", "P", "E", "G">>), Str(<<"W", "e", "b", "P">>),
      png, jpg, Str(<<"g", "i", "f">>), Str(<<"B", "M", "P">>), <<>> }

\* Image.open(io.BytesIO(image_bytes)) identifies the bytes as an image.
Decodable(bytes) == bytes # <<>> /\ Head(bytes) = Head(ImgA)

\* Image.open(...).convert("RGB")
DecodeImage(bytes) == [src |-> bytes, mode |-> "RGB"]

\* "format not in supported_formats": faulty variant whose permitted set has gif too.
FormatUnsupportedAllowsGif(format) ==
    Lower(format) \notin (supported_formats \cup {Str(<<"g", "i", "f">>)})

\* format = format.lower(); if format not in supported_formats
FormatUnsupported(format) == Lower(format) \notin supported_formats

\* convert_image(image, format): what it returns or raises, and the codec
\* steps it performs, in order.
convert_image(image, format) ==
    LET f == Lower(format)
        rgb == IF f \in {jpg, jpeg} THEN << <<"rgb", 0>> >> ELSE <<>>
    IN  IF FormatUnsupported(format)
        THEN [out |-> Raise("ValueError", MsgUnsupported, <<>>), events |-> <<>>]
        ELSE IF Upper(f) \notin SaveRegistry
        THEN [out |-> Raise("KeyError", MsgKeyError, <<>>), events |-> rgb]
        ELSE [out |-> Return([format |-> Upper(f), src |-> image.src, mode |-> "RGB"]),
              events |-> rgb \o << <<"save", 0>> >>]

(* ------------------------------ UI handler ---------------------------- *)

\* generate_image has not returned.
NoUi == [kind |-> "none", image |-> <<>>, status |-> <<>>, file |-> <<>>, exc |-> ""]

\* return None, f"Error: {str(e)}", None
UiError(msg) ==
    [kind |-> "return", image |-> <<>>, status |-> <<"Error: ", msg>>,
     file |-> <<>>, exc |-> ""]

\* The success tuple: faulty variant that leaves the download file out.
UiSuccessNoFile(image, file) ==
    [kind |-> "return", image |-> <<image>>,
     status |-> <<"Image generated successfully!">>, file |-> <<>>, exc |-> ""]

\* return image, "Image generated successfully!", temp_file
UiSuccess(image, file) ==
    [kind |-> "return", image |-> <<image>>,
     status |-> <<"Image generated successfully!">>, file |-> <<file>>, exc |-> ""]

\* An exception leaves generate_image.
UiRaise(exc) ==
    [kind |-> "raise", image |-> <<>>, status |-> <<>>, file |-> <<>>, exc |-> exc]

\* "except Exception": faulty variant that catches ValueError only.
CatchesOnlyValueError(exc) == exc = "ValueError"

\* except Exception as e: every exception class raised here derives from Exception.
Catches(exc) ==
    exc \in {"ValueError", "RuntimeError", "UnidentifiedImageError", "KeyError"}

\* The except clause of generate_image applied to a raised exception.
UiOnException(out) ==
    IF Catches(out.exc) THEN UiError(out.msg) ELSE UiRaise(out.exc)

(* ------------------------------- state -------------------------------- *)

VARIABLES
    envToken,         \* os.environ["HF_TOKEN"], shared by every invocation
    dotenvInstalled,  \* python-dotenv is importable
    dotenvFile,       \* the HF_TOKEN entry of the .env file
    calls             \* calls[c]: the frame (local variables) of invocation c

vars == <<envToken, dotenvInstalled, dotenvFile, calls>>

\* Prompts drawn as inputs: every string over these characters up to
\* MaxPromptLen, and each whitespace character alone.
PromptChars == {Ord("a"), Ord(" ")}
Prompts ==
    UNION {[1..n -> PromptChars] : n \in 0..MaxPromptLen}
        \cup {<<w>> : w \in Whitespace}

\* The function entered: utils.query_hf_api, app.query_hf_api, app.generate_image.
Entries == {"utils", "app", "generate"}

\* The module whose query_hf_api the entry runs.
Client(entry) == IF entry = "utils" THEN "utils" ELSE "app"

\* A frame before the invocation starts.  The local "attempt" is unbound
\* (<<>>) until the for statement binds it to a loop index (<<i>>).
IdleFrame ==
    [pc |-> "idle", entry |-> "utils", prompt |-> <<>>, fmt |-> png,
     maxRetries |-> DefaultMaxRetries, attempt |-> <<>>, resps |-> <<>>,
     trace |-> <<>>, sent |-> <<>>, outcome |-> NoOutcome, ui |-> NoUi]

\* The frame on entry with its arguments bound.
EnterFrame(entry, prompt, fmt, max_retries) ==
    [IdleFrame EXCEPT !.entry = entry, !.prompt = prompt, !.fmt = fmt,
                      !.maxRetries = max_retries]

\* "for attempt in range(...)" advancing the loop index: faulty variant that
\* keeps the index in one module-level counter shared by every invocation.
NextIndexShared(fr) ==
    LET all == {calls[c].attempt[1] : c \in {d \in Calls : calls[d].attempt # <<>>}}
    IN  (CHOOSE m \in all : \A k \in all : k <= m) + 1

\* "for attempt in range(...)" advancing the loop index, a local of the frame.
NextIndex(fr) == fr.attempt[1] + 1

\* The loop head: faulty variant that starts over when the budget is used up.
AtLoopHeadStartsOver(fr, i) ==
    IF LoopContinues(i, fr.maxRetries)
    THEN [fr EXCEPT !.pc = "loop", !.attempt = <<i>>]
    ELSE [fr EXCEPT !.pc = "loop", !.attempt = <<0>>]

\* The head of "for attempt in range(max_retries)" when the range yields
\* i next: bind attempt to i and run the body, or, the range being
\* exhausted, fall out of the loop to the final raise.  An exhausted range
\* does not rebind attempt: it keeps the last index it was bound to, and
\* stays unbound when the range was empty.
AtLoopHead(fr, i) ==
    IF LoopContinues(i, fr.maxRetries)
    THEN [fr EXCEPT !.pc = "loop", !.attempt = <<i>>]
    ELSE [fr EXCEPT !.pc = "done",
                    !.outcome = Raise("RuntimeError", MsgUnexpected, <<>>)]

\* query_hf_api from its first line to the first network call: validate
\* the prompt, load the token (tok), build the payload, enter the loop.
QueryEnter(fr, tok) ==
    IF PromptIsEmpty(fr.prompt)
    THEN [fr EXCEPT !.pc = "done",
                    !.outcome = Raise("ValueError", MsgEmptyPrompt, <<>>)]
    ELSE IF TokenMissing(tok)
    THEN [fr EXCEPT !.pc = "done",
                    !.outcome = Raise("ValueError", MsgNoToken, <<>>)]
    ELSE AtLoopHead([fr EXCEPT !.sent = PayloadInputs(Client(fr.entry), fr.prompt)], 0)

\* The loop body on the outcome r of this iteration's requests.post.
QueryOnResponse(fr, r) ==
    LET res == IF Client(fr.entry) = "utils"
               THEN UtilsAttempt(fr.attempt[1], fr.maxRetries, r)
               ELSE AppAttempt(fr.attempt[1], fr.maxRetries, r)
        fr1 == [fr EXCEPT !.resps = Append(@, r),
                          !.trace = Append(@, <<"post", fr.attempt[1] + 1>>)]
    IN  CASE res.step = "sleep" ->
               [fr1 EXCEPT !.pc = "sleep",
                           !.trace = Append(@, <<"sleep", res.dur>>)]
          [] res.step = "continue" -> AtLoopHead(fr1, NextIndex(fr))
          [] OTHER -> [fr1 EXCEPT !.pc = "done", !.outcome = res.out]

\* time.sleep returns: "continue" (503 branch) or the end of the except
\* clause; both go to the next loop index.
QueryOnWake(fr) == AtLoopHead(fr, NextIndex(fr))

\* generate_image after query_hf_api has returned or raised: decode,
\* convert, build the download file, or render the exception as a status.
GenerateAfterQuery(fr) ==
    LET out == fr.outcome IN
    IF out.kind = "raise" THEN [fr EXCEPT !.ui = UiOnException(out)]
    ELSE IF ~Decodable(out.value)
    THEN [fr EXCEPT !.ui = UiOnException(
                               Raise("UnidentifiedImageError", MsgUnidentified, <<>>))]
    ELSE LET image == DecodeImage(out.value)
             conv == convert_image(image, fr.fmt)
             tr == fr.trace \o << <<"decode", 0>> >> \o conv.events
         IN  IF conv.out.kind = "raise"
             THEN [fr EXCEPT !.trace = tr, !.ui = UiOnException(conv.out)]
             ELSE [fr EXCEPT !.trace = tr,
                             !.ui = UiSuccess(image,
                                      [data |-> conv.out.value,
                                       stem |-> "generated_image",
                                       ext |-> Lower(fr.fmt)])]

\* A frame whose query_hf_api has finished is handed back to the caller:
\* generate_image continues in the same step (it does not block again).
Settle(fr) ==
    IF fr.entry = "generate" /\ fr.pc = "done" /\ fr.ui.kind = "none"
    THEN GenerateAfterQuery(fr)
    ELSE fr

(* ------------------------------- actions ------------------------------ *)

Init ==
    /\ envToken \in EnvValues
    /\ dotenvInstalled \in BOOLEAN
    /\ dotenvFile \in DotenvValues
    /\ calls = [c \in Calls |-> IdleFrame]

\* Invocation c enters query_hf_api of the given module and runs up to its
\* first network call.  load_environment() runs only past the prompt check.
StartQuery(c, entry, prompt, fmt, max_retries) ==
    LET tok == load_environment(envToken, dotenvInstalled, dotenvFile)
    IN  /\ calls[c].pc = "idle"
        /\ calls' = [calls EXCEPT ![c] =
                        Settle(QueryEnter(EnterFrame(entry, prompt, fmt, max_retries), tok))]
        /\ envToken' = IF PromptIsEmpty(prompt) THEN envToken ELSE tok
        /\ UNCHANGED <<dotenvInstalled, dotenvFile>>

\* utils.query_hf_api(prompt, max_retries=n)
StartUtils(c) ==
    /\ calls[c].pc = "idle"
    /\ \E prompt \in Prompts, n \in 0..MaxRetriesParam :
          StartQuery(c, "utils", prompt, png, n)

\* app.query_hf_api(prompt, max_retries=n)
StartApp(c) ==
    /\ calls[c].pc = "idle"
    /\ \E prompt \in Prompts, n \in 0..MaxRetriesParam :
          StartQuery(c, "app", prompt, png, n)

\* generate_image: faulty variant that validates the output format before
\* it calls the inference client.
StartGenerateFormatFirst(c) ==
    /\ calls[c].pc = "idle"
    /\ \E prompt \in Prompts, fmt \in Formats :
        IF PromptIsEmpty(prompt) \/ FormatUnsupported(fmt)
        THEN /\ calls' = [calls EXCEPT ![c] =
                             [EnterFrame("generate", prompt, fmt, DefaultMaxRetries)
                                 EXCEPT !.pc = "done",
                                        !.ui = IF PromptIsEmpty(prompt)
                                               THEN UiError(MsgEmptyPrompt)
                                               ELSE UiError(MsgUnsupported)]]
             /\ UNCHANGED <<envToken, dotenvInstalled, dotenvFile>>
        ELSE StartQuery(c, "generate", prompt, fmt, DefaultMaxRetries)

\* app.generate_image(prompt, output_format): an empty prompt returns the
\* error tuple at once; otherwise query_hf_api(prompt) is called.
StartGenerate(c) ==
    /\ calls[c].pc = "idle"
    /\ \E prompt \in Prompts, fmt \in Formats :
        IF PromptIsEmpty(prompt)
        THEN /\ calls' = [calls EXCEPT ![c] =
                             [EnterFrame("generate", prompt, fmt, DefaultMaxRetries)
                                 EXCEPT !.pc = "done", !.ui = UiError(MsgEmptyPrompt)]]
             /\ UNCHANGED <<envToken, dotenvInstalled, dotenvFile>>
        ELSE StartQuery(c, "generate", prompt, fmt, DefaultMaxRetries)

\* One iteration of the retry loop of invocation c: requests.post is
\* called, its outcome r is drawn from R, and the loop body handles it.
Request(c, R) ==
    /\ calls[c].pc = "loop"
    /\ \E r \in R :
          calls' = [calls EXCEPT ![c] = Settle(QueryOnResponse(calls[c], r))]
    /\ UNCHANGED <<envToken, dotenvInstalled, dotenvFile>>

\* The backoff sleep of invocation c ends.
Wake(c) ==
    /\ calls[c].pc = "sleep"
    /\ calls' = [calls EXCEPT ![c] = Settle(QueryOnWake(calls[c]))]
    /\ UNCHANGED <<envToken, dotenvInstalled, dotenvFile>>

\* One invocation at a time (requests are issued per user click).
Attempt == Request(1, Responses)
Backoff == Wake(1)
Utils == StartUtils(1)
App == StartApp(1)
Generate == StartGenerate(1)

Next == Utils \/ App \/ Generate \/ Attempt \/ Backoff

Spec == Init /\ [][Next]_vars

\* The same, with the scheduling the calls rely on: requests.post returns or
\* raises within its timeout (timeout=120) and time.sleep returns.
SpecF == Spec /\ WF_vars(Attempt) /\ WF_vars(Backoff)

\* Several invocations of utils.query_hf_api at once (one per user), each
\* with the default max_retries.
StartUtilsC(c) ==
    /\ calls[c].pc = "idle"
    /\ \E prompt \in Prompts :
          /\ Len(prompt) <= 1
          /\ StartQuery(c, "utils", prompt, png, DefaultMaxRetries)

NextC ==
    \E c \in Calls : StartUtilsC(c) \/ Request(c, ResponsesC) \/ Wake(c)

SpecC == Init /\ [][NextC]_vars

\* The two clients side by side: invocation 1 runs utils.query_hf_api and
\* invocation 2 runs app.query_hf_api with the same arguments; each draws
\* its own backend outcomes.
StartPair(c, entry) ==
    /\ calls[c].pc = "idle"
    /\ \E prompt \in Prompts, n \in 0..MaxRetriesParam :
        /\ Len(prompt) <= 1
        /\ \A d \in {1, 2} :
              calls[d].pc # "idle"
              => (calls[d].prompt = prompt /\ calls[d].maxRetries = n)
        /\ StartQuery(c, entry, prompt, png, n)

NextE ==
    \/ StartPair(1, "utils")
    \/ StartPair(2, "app")
    \/ \E c \in {1, 2} : Request(c, ResponsesE) \/ Wake(c)

SpecE == Init /\ [][NextE]_vars

(* ------------------------- observations of a frame -------------------- *)

\* The invocation has been entered.
Started(fr) == fr.pc # "idle"

\* The network calls of the invocation, in order.
Posts(fr) == SelectSeq(fr.trace, LAMBDA e : e[1] = "post")

\* The number of times requests.post was invoked.
NetCalls(fr) == Len(Posts(fr))

\* The durations of the sleeps of the invocation, in order.
SleepDurations(fr) ==
    LET sl == SelectSeq(fr.trace, LAMBDA e : e[1] = "sleep")
    IN  [i \in DOMAIN sl |-> sl[i][2]]

\* The durations slept after network call n and before network call n + 1.
SleepsBetween(fr, n) ==
    LET tr == fr.trace
        i == CHOOSE k \in DOMAIN tr : tr[k] = <<"post", n>>
        j == CHOOSE k \in DOMAIN tr : tr[k] = <<"post", n + 1>>
        mid == SelectSeq(SubSeq(tr, i + 1, j - 1), LAMBDA e : e[1] = "sleep")
    IN  [k \in DOMAIN mid |-> mid[k][2]]

\* The prompt is empty or holds whitespace only.
IsBlank(prompt) == \A i \in DOMAIN prompt : prompt[i] \in Whitespace

\* The backend answered 503 / answered with a 2xx status.
Is503(r) == ~r.exc /\ r.status = 503
IsSuccess(r) == ~r.exc /\ r.status >= 200 /\ r.status < 300

\* The retry loop of the invocation was entered (both preconditions held).
LoopEntered(fr) == Started(fr) /\ fr.outcome.exc # "ValueError" /\ ~IsBlank(fr.prompt)

\* The invocation runs query_hf_api with the default max_retries.
DefaultCall(fr) == Started(fr) /\ fr.maxRetries = 3

(* -------------------------------- claims ------------------------------ *)

\* C1: a query_hf_api call with the default max_retries invokes the network
\* call at most 3 times, whatever the backend answers.
C1_AtMostThreeCalls ==
    \A c \in Calls : DefaultCall(calls[c]) => NetCalls(calls[c]) <= 3

\* A finished call that used all 3 network calls.
C1_Witness ==
    \E c \in Calls :
        /\ DefaultCall(calls[c]) /\ calls[c].pc = "done"
        /\ NetCalls(calls[c]) = 3

\* C2: when the backend answers 503 to every attempt of a utils.py call,
\* exactly 3 attempts occur, the sleep durations are strictly increasing,
\* and 5 is slept between attempts 1 and 2 and 10 between attempts 2 and 3.
C2_Persistent503 ==
    \A c \in Calls :
        LET fr == calls[c] IN
        ( /\ DefaultCall(fr) /\ fr.entry = "utils" /\ fr.pc = "done"
          /\ LoopEntered(fr)
          /\ \A i \in DOMAIN fr.resps : Is503(fr.resps[i]) )
        => /\ NetCalls(fr) = 3
           /\ \A i, j \in DOMAIN SleepDurations(fr) :
                 i < j => SleepDurations(fr)[i] < SleepDurations(fr)[j]
           /\ SleepsBetween(fr, 1) = <<5>>
           /\ SleepsBetween(fr, 2) = <<10>>

\* A finished utils.py call all of whose three attempts were answered 503.
C2_Witness ==
    \E c \in Calls :
        /\ DefaultCall(calls[c]) /\ calls[c].entry = "utils" /\ calls[c].pc = "done"
        /\ Len(calls[c].resps) = 3
        /\ \A i \in DOMAIN calls[c].resps : Is503(calls[c].resps[i])

\* C3: a call that exhausts its budget (3 attempts, none returned) fails
\* with a RuntimeError that wraps the error of the last attempt.
C3_ExhaustedWrapsLastError ==
    \A c \in Calls :
        LET fr == calls[c] IN
        ( /\ DefaultCall(fr) /\ fr.pc = "done"
          /\ NetCalls(fr) = 3 /\ fr.outcome.kind # "return" )
        => /\ fr.outcome.kind = "raise"
           /\ fr.outcome.exc = "RuntimeError"
           /\ fr.outcome.cause = <<fr.resps[3]>>

\* C4: for a prompt that is empty or all whitespace, query_hf_api raises
\* ValueError("Prompt cannot be empty"), generate_image returns an error
\* status, no network call is made, and this is so whatever the credential.
C4_BlankPromptRejected ==
    \A c \in Calls :
        LET fr == calls[c] IN
        (Started(fr) /\ IsBlank(fr.prompt))
        => /\ fr.pc = "done"
           /\ NetCalls(fr) = 0 /\ fr.resps = <<>>
           /\ fr.entry \in {"utils", "app"}
                 => fr.outcome = Raise("ValueError", MsgEmptyPrompt, <<>>)
           /\ fr.entry = "generate"
                 => /\ fr.ui.kind = "return"
                    /\ fr.ui.status = <<"Error: ", MsgEmptyPrompt>>
                    /\ fr.ui.image = <<>>

\* A whitespace-only prompt (a line tabulation, U+000B) was rejected while
\* no token was set.
C4_Witness ==
    \E c \in Calls :
        /\ calls[c].pc = "done" /\ calls[c].prompt = <<11>>
        /\ calls[c].entry = "utils"
        /\ calls[c].outcome.msg = MsgEmptyPrompt
        /\ envToken = <<>>

\* C5: for a prompt that is non-empty (after trimming, the data model's
\* notion of a prompt), when HF_TOKEN is unset or empty once the environment
\* has been loaded, query_hf_api raises the missing-token ValueError and no
\* network call has been made.
C5_MissingCredential ==
    \A c \in Calls :
        LET fr == calls[c] IN
        ( /\ Started(fr) /\ ~IsBlank(fr.prompt)
          /\ (envToken = <<>> \/ envToken = << <<>> >>) )
        => /\ fr.pc = "done"
           /\ fr.outcome = Raise("ValueError", MsgNoToken, <<>>)
           /\ NetCalls(fr) = 0 /\ fr.resps = <<>>

\* A call with a valid prompt failed because HF_TOKEN is set to "".
C5_Witness ==
    \E c \in Calls :
        /\ calls[c].pc = "done" /\ calls[c].prompt = Str(<<"a">>)
        /\ envToken = << <<>> >>
        /\ calls[c].outcome.msg = MsgNoToken

\* The call has returned a payload: it is the payload of the last network
\* call, that call is the last thing the client did, and a first-attempt
\* success made one call and no sleep.
C6_ReturnedState(fr) ==
    fr.outcome.kind = "return"
    => /\ fr.pc = "done"
       /\ fr.resps # <<>>
       /\ fr.outcome.value = fr.resps[Len(fr.resps)].content
       /\ NetCalls(fr) = Len(fr.resps)
       /\ LET q == SelectSeq(fr.trace, LAMBDA e : e[1] \in {"post", "sleep"})
          IN  q[Len(q)] = <<"post", Len(fr.resps)>>
       /\ Len(fr.resps) = 1 => (NetCalls(fr) = 1 /\ SleepDurations(fr) = <<>>)

\* C6: whenever an attempt succeeds the returned bytes are that attempt's
\* payload unmodified (a first-attempt success makes exactly one network
\* call and no sleep), and no network call or sleep follows the return.
C6_SuccessPassThrough ==
    /\ [](\A c \in Calls : C6_ReturnedState(calls[c]))
    /\ [][\A c \in Calls :
            calls[c].outcome.kind = "return"
            => /\ calls'[c].outcome = calls[c].outcome
               /\ Posts(calls'[c]) = Posts(calls[c])
               /\ SleepDurations(calls'[c]) = SleepDurations(calls[c])]_vars

\* A first-attempt success that returned the payload ImgB.
C6_Witness ==
    \E c \in Calls :
        /\ calls[c].outcome.kind = "return"
        /\ calls[c].resps = <<Resp(200, ImgB)>>
        /\ calls[c].outcome.value = ImgB

\* The responses received so far are those of a backend that answers 503
\* twice and then succeeds.
C7_Backend(fr) ==
    /\ Len(fr.resps) <= 3
    /\ \A i \in DOMAIN fr.resps :
          /\ i <= 2 => Is503(fr.resps[i])
          /\ i = 3 => IsSuccess(fr.resps[i])

\* C7: against a backend that answers 503 twice and then succeeds, a call
\* makes exactly 3 attempts and returns the bytes of the third response.
C7_SucceedsOnThird ==
    \A c \in Calls :
        LET fr == calls[c] IN
        ( /\ DefaultCall(fr) /\ fr.pc = "done"
          /\ LoopEntered(fr) /\ C7_Backend(fr) )
        => /\ NetCalls(fr) = 3
           /\ fr.outcome = Return(fr.resps[3].content)

\* A utils.py call that got 503, 503 and then a payload, and returned it.
C7_Witness ==
    \E c \in Calls :
        /\ calls[c].entry = "utils" /\ calls[c].pc = "done"
        /\ calls[c].resps =
              <<Resp(503, Junk), Resp(503, Junk), Resp(200, ImgA)>>
        /\ calls[c].outcome.kind = "return"

\* One of the failures of a generate_image call: empty prompt, an error
\* raised by query_hf_api (missing token, request failed), bytes that do
\* not decode, or an output format outside the permitted set.
C8_Failure(fr) ==
    \/ IsBlank(fr.prompt)
    \/ fr.outcome.kind = "raise"
    \/ fr.outcome.kind = "return" /\ fr.outcome.value \notin {ImgA, ImgB}
    \/ Lower(fr.fmt) \notin {png, jpg, jpeg, webp}

\* C8: generate_image never propagates an exception; on every failure it
\* returns (None, "Error: ...", None).
C8_ErrorsRendered ==
    \A c \in Calls :
        LET fr == calls[c] IN
        (fr.entry = "generate" /\ fr.pc = "done")
        => /\ fr.ui.kind = "return"
           /\ C8_Failure(fr)
                 => /\ fr.ui.image = <<>>
                    /\ fr.ui.file = <<>>
                    /\ Len(fr.ui.status) = 2
                    /\ fr.ui.status[1] = "Error: "
                    /\ fr.ui.status[2] # ""

\* A generate_image call whose request failed after 3 attempts.
C8_Witness ==
    \E c \in Calls :
        /\ calls[c].entry = "generate" /\ calls[c].pc = "done"
        /\ calls[c].outcome.exc = "RuntimeError"
        /\ calls[c].ui.status = <<"Error: ", MsgFailed>>

\* C9: for an output format that, lower-cased, is not png, jpg, jpeg or
\* webp, convert_image raises the unsupported-format ValueError before any
\* color-mode conversion or encoding.
C9_UnsupportedFormat ==
    \A c \in Calls :
        LET fr == calls[c]
            codec == SelectSeq(fr.trace, LAMBDA e : e[1] \in {"rgb", "save"})
        IN
        ( /\ fr.entry = "generate" /\ fr.pc = "done"
          /\ \E i \in DOMAIN fr.trace : fr.trace[i][1] = "decode"
          /\ Lower(fr.fmt) \notin {png, jpg, jpeg, webp} )
        => /\ fr.ui = UiError(MsgUnsupported)
           /\ codec = <<>>

\* convert_image was reached with the format "BMP".
C9_Witness ==
    \E c \in Calls :
        /\ calls[c].entry = "generate" /\ calls[c].pc = "done"
        /\ calls[c].fmt = Str(<<"B", "M", "P">>)
        /\ \E i \in DOMAIN calls[c].trace : calls[c].trace[i][1] = "decode"
        /\ calls[c].ui.status = <<"Error: ", MsgUnsupported>>

\* Two invocations with the same arguments that have received the same
\* responses and stand at the same place have done the same and hold the
\* same result: nothing of another invocation entered.
C10_Determined ==
    \A c, d \in Calls :
        ( /\ Started(calls[c]) /\ Started(calls[d])
          /\ calls[c].prompt = calls[d].prompt
          /\ calls[c].maxRetries = calls[d].maxRetries
          /\ calls[c].resps = calls[d].resps
          /\ calls[c].pc = calls[d].pc )
        => calls[c] = calls[d]

\* While an invocation sleeps, every other invocation can take its next step.
C10_NotBlocked ==
    \A c, d \in Calls :
        (c # d /\ calls[c].pc = "sleep")
        => /\ calls[d].pc = "idle" => ENABLED StartUtilsC(d)
           /\ calls[d].pc = "loop" => ENABLED Request(d, ResponsesC)
           /\ calls[d].pc = "sleep" => ENABLED Wake(d)

\* C10: concurrent invocations are independent: a step of one leaves every
\* other frame as it was and does not change the token any invocation
\* resolves from the environment; attempts, sleeps and outcome of an
\* invocation follow from its own responses; a sleeping invocation blocks
\* no other.
C10_Independent ==
    /\ [](C10_Determined /\ C10_NotBlocked)
    /\ [][/\ \A c, d \in Calls :
               c # d => (calls'[c] = calls[c] \/ calls'[d] = calls[d])
          /\ load_environment(envToken', dotenvInstalled', dotenvFile')
                = load_environment(envToken, dotenvInstalled, dotenvFile)]_vars

\* One invocation sleeps in its backoff while another has finished with
\* three attempts of its own.
C10_Witness ==
    \E c, d \in Calls :
        /\ c # d
        /\ calls[c].pc = "sleep" /\ Len(calls[c].resps) = 1
        /\ calls[d].pc = "done" /\ Len(calls[d].resps) = 3

\* query_hf_api was called in the invocation (generate_image does not call
\* it for an empty prompt).
QueryCalled(fr) == Started(fr) /\ ~(fr.entry = "generate" /\ IsBlank(fr.prompt))

\* query_hf_api has ended: it returned bytes or raised an error.
QueryEnded(fr) == fr.pc = "done" /\ fr.outcome.kind \in {"return", "raise"}

\* C11: every query_hf_api call terminates: given that each network call
\* comes back and each sleep ends, the call reaches a return or a raise, and
\* with the default budget it never makes more than 3 attempts on the way.
C11_Terminates ==
    /\ \A c \in Calls : QueryCalled(calls[c]) ~> QueryEnded(calls[c])
    /\ [](\A c \in Calls :
            (DefaultCall(calls[c]) /\ QueryCalled(calls[c]))
            => /\ NetCalls(calls[c]) <= 3
               /\ \A k \in DOMAIN calls[c].attempt : calls[c].attempt[k] < 3
               /\ calls[c].pc \in {"loop", "sleep", "done"})

\* A call that ended by a raise after three attempts and three sleeps.
C11_Witness ==
    \E c \in Calls :
        /\ QueryEnded(calls[c]) /\ calls[c].outcome.kind = "raise"
        /\ NetCalls(calls[c]) = 3 /\ Len(SleepDurations(calls[c])) = 3

\* "photorealistic high resolution sharp focus professional photography
\* natural lighting detailed textures", written out.
C12_ModifierList ==
    Str(<<"p", "h", "o", "t", "o", "r", "e", "a", "l", "i", "s", "t", "i", "c",
      " ", "h", "i", "g", "h", " ", "r", "e", "s", "o", "l", "u", "t", "i",
      "o", "n", " ", "s", "h", "a", "r", "p", " ", "f", "o", "c", "u", "s",
      " ", "p", "r", "o", "f", "e", "s", "s", "i", "o", "n", "a", "l", " ",
      "p", "h", "o", "t", "o", "g", "r", "a", "p", "h", "y", " ", "n", "a",
      "t", "u", "r", "a", "l", " ", "l", "i", "g", "h", "t", "i", "n", "g",
      " ", "d", "e", "t", "a", "i", "l", "e", "d", " ", "t", "e", "x", "t",
      "u", "r", "e", "s">>)

\* ", shot on professional camera, 8k resolution", written out.
C12_FixedSuffix ==
    Str(<<",", " ", "s", "h", "o", "t", " ", "o", "n", " ", "p", "r", "o", "f",
      "e", "s", "s", "i", "o", "n", "a", "l", " ", "c", "a", "m", "e", "r",
      "a", ",", " ", "8", "k", " ", "r", "e", "s", "o", "l", "u", "t", "i",
      "o", "n">>)

\* s occurs in t as a contiguous substring.
C12_Contains(t, s) ==
    \E i \in 0..(Len(t) - Len(s)) : SubSeq(t, i + 1, i + Len(s)) = s

\* C12: for a non-empty base prompt p the enhanced prompt that app.py puts
\* in the request body is the modifier list, ", ", p unchanged and the fixed
\* suffix: it starts with the list, contains p and ends with the suffix.
C12_EnhancedPrompt ==
    \A c \in Calls :
        LET fr == calls[c]
            p == fr.prompt
            e == fr.sent
            m == Len(C12_ModifierList)
        IN
        (Client(fr.entry) = "app" /\ LoopEntered(fr))
        => /\ e = C12_ModifierList \o Str(<<",", " ">>) \o p \o C12_FixedSuffix
           /\ SubSeq(e, 1, m) = C12_ModifierList
           /\ SubSeq(e, m + 1, m + 2 + Len(p)) = Str(<<",", " ">>) \o p
           /\ C12_Contains(e, p)
           /\ SubSeq(e, Len(e) - Len(C12_FixedSuffix) + 1, Len(e)) = C12_FixedSuffix

\* app.py sent the enhanced form of the prompt "a ".
C12_Witness ==
    \E c \in Calls :
        /\ calls[c].entry = "app" /\ calls[c].prompt = Str(<<"a", " ">>)
        /\ Len(calls[c].sent) > Len(C12_ModifierList)
        /\ Len(calls[c].resps) >= 1

\* C13: every backoff wait after a 503 is followed by another network
\* attempt of the same call: a 503 on attempt n is followed by a sleep of
\* 5 * n and then by attempt n + 1, so a finished call has no sleep after
\* its last network attempt.
C13_BackoffThenRetry ==
    \A c \in Calls :
        LET fr == calls[c]
            tr == fr.trace
        IN
        fr.pc = "done"
        => \A i \in DOMAIN tr :
              (tr[i][1] = "post" /\ Is503(fr.resps[tr[i][2]])
                 /\ Client(fr.entry) = "utils")
              => /\ i + 2 <= Len(tr)
                 /\ tr[i + 1] = <<"sleep", 5 * tr[i][2]>>
                 /\ tr[i + 2] = <<"post", tr[i][2] + 1>>

\* An attempt that did not succeed and is not a 503, as the claim words it:
\* requests.post raised (network error), or any status outside 2xx.
C14_NonSuccess(r) == r.exc \/ (~IsSuccess(r) /\ ~Is503(r))

\* C14 as worded: with the default budget, a network error or any non-2xx
\* status other than 503 on attempt 1 or 2 does not end the call, which
\* goes on to a further attempt.  It does not hold: a 1xx or 3xx status
\* (304) is not raised for by raise_for_status and its content is
\* returned at once.
C14_AsWorded ==
    \A c \in Calls :
        LET fr == calls[c]
            n == Len(fr.resps)
        IN
        (DefaultCall(fr) /\ LoopEntered(fr))
        => /\ (n \in {1, 2} /\ C14_NonSuccess(fr.resps[n]))
                 => /\ fr.pc \in {"loop", "sleep"}
                    /\ fr.outcome.kind = "none"
           /\ \A i \in DOMAIN fr.resps :
                 (i <= 2 /\ C14_NonSuccess(fr.resps[i]) /\ fr.pc = "done")
                 => NetCalls(fr) > i

\* A failed attempt that is not a 503: requests.post raised (network
\* error), or the status is one raise_for_status raises for (4xx, 5xx).
C14_OtherFailure(r) ==
    r.exc \/ (r.status >= 400 /\ r.status <= 599 /\ r.status # 503)

\* C14, amended: with the default budget, a network error or a 4xx/5xx
\* status other than 503 on attempt 1 or 2 does not end the call, which
\* goes on to a further attempt; the call fails with the request error
\* only once the 3rd attempt has failed.  A status outside 2xx that is
\* not 4xx/5xx is no failure: its content is returned like a success.
C14_OtherFailureRetried ==
    \A c \in Calls :
        LET fr == calls[c]
            n == Len(fr.resps)
        IN
        (DefaultCall(fr) /\ LoopEntered(fr))
        => /\ (n \in {1, 2} /\ C14_OtherFailure(fr.resps[n]))
                 => /\ fr.pc \in {"loop", "sleep"}
                    /\ fr.outcome.kind = "none"
           /\ \A i \in DOMAIN fr.resps :
                 (i <= 2 /\ C14_OtherFailure(fr.resps[i]) /\ fr.pc = "done")
                 => NetCalls(fr) > i
           /\ fr.outcome.kind = "raise"
                 => /\ n = 3
                    /\ C14_OtherFailure(fr.resps[3]) \/ Is503(fr.resps[3])
           /\ \A i \in DOMAIN fr.resps :
                 (~fr.resps[i].exc /\ ~Is503(fr.resps[i])
                      /\ ~RaiseForStatus(fr.resps[i].status))
                 => /\ i = n /\ fr.pc = "done"
                    /\ fr.outcome = Return(fr.resps[i].content)

\* A call that met a 404 and a network error, went on, and failed on the
\* third attempt.
C14_Witness ==
    \E c \in Calls :
        /\ DefaultCall(calls[c]) /\ calls[c].pc = "done"
        /\ Len(calls[c].resps) = 3
        /\ calls[c].resps[1] = Resp(404, Junk)
        /\ calls[c].resps[2] = NetErr
        /\ calls[c].outcome.kind = "raise"

\* C15: in utils.py the sleep between attempt n and attempt n + 1 is
\* exactly 5 * n whatever attempt n failed with (503, another error status,
\* a network error): one sleep, fixed by the attempt index alone.
C15_WaitByIndexOnly ==
    \A c \in Calls :
        LET fr == calls[c]
            tr == fr.trace
        IN
        fr.entry = "utils"
        => /\ \A n \in 1..(NetCalls(fr) - 1) : SleepsBetween(fr, n) = <<5 * n>>
           /\ \A i \in DOMAIN tr :
                 tr[i][1] = "sleep"
                 => /\ i > 1 /\ tr[i - 1][1] = "post"
                    /\ tr[i][2] = 5 * tr[i - 1][2]

\* Attempt 1 failed with a network error, attempt 2 with a 404, attempt 3
\* with a 503: the waits were 5, 10 and 15.
C15_Witness ==
    \E c \in Calls :
        /\ calls[c].entry = "utils"
        /\ Len(calls[c].resps) = 3
        /\ calls[c].resps[1] = NetErr
        /\ calls[c].resps[2] = Resp(404, Junk)
        /\ calls[c].resps[3] = Resp(503, Junk)
        /\ SleepDurations(calls[c]) = <<5, 10, 15>>

\* The two shapes of a result of generate_image.
C16_SuccessShape(ui) ==
    /\ Len(ui.image) = 1 /\ Len(ui.file) = 1
    /\ ui.status = <<"Image generated successfully!">>

C16_FailureShape(ui) ==
    /\ ui.image = <<>> /\ ui.file = <<>>
    /\ Len(ui.status) = 2 /\ ui.status[1] = "Error: "

\* C16: every result of generate_image is a success (image, download file,
\* "Image generated successfully!") or a failure (None, None, "Error: ...")
\* and never a mix of the two.
C16_TwoShapes ==
    \A c \in Calls :
        LET fr == calls[c] IN
        (fr.entry = "generate" /\ fr.pc = "done")
        => /\ fr.ui.kind = "return"
           /\ C16_SuccessShape(fr.ui) \/ C16_FailureShape(fr.ui)
           /\ ~(C16_SuccessShape(fr.ui) /\ C16_FailureShape(fr.ui))
           /\ fr.ui.image # <<>> => fr.ui.status = <<"Image generated successfully!">>
           /\ fr.ui.status = <<"Image generated successfully!">>
                 => (fr.ui.image # <<>> /\ fr.ui.file # <<>>)

\* A successful generate_image call with the dropdown's "JPEG".
C16_Witness ==
    \E c \in Calls :
        /\ calls[c].entry = "generate" /\ calls[c].pc = "done"
        /\ calls[c].fmt = Str(<<"J", "P", "E", "G">>)
        /\ C16_SuccessShape(calls[c].ui)

\* The positions in the trace of the events of the given kinds.
C17_At(fr, kinds) == {i \in DOMAIN fr.trace : fr.trace[i][1] \in kinds}

\* C17: generate_image validates the prompt, runs the inference request
\* with its retries, decodes, and only then validates the output format and
\* encodes: for a non-empty prompt (and a token) the network is called
\* whatever the format, and an unsupported format is reported only after a
\* response was returned and decoded.
C17_StepOrder ==
    \A c \in Calls :
        LET fr == calls[c] IN
        (fr.entry = "generate" /\ fr.pc = "done")
        => /\ \A i \in C17_At(fr, {"post", "sleep"}) :
                 \A j \in C17_At(fr, {"decode", "rgb", "save"}) : i < j
           /\ \A i \in C17_At(fr, {"decode"}) :
                 \A j \in C17_At(fr, {"rgb", "save"}) : i < j
           /\ (~IsBlank(fr.prompt) /\ envToken = <<SomeToken>>)
                 => NetCalls(fr) >= 1
           /\ fr.ui.status = <<"Error: ", MsgUnsupported>>
                 => /\ fr.outcome.kind = "return"
                    /\ NetCalls(fr) >= 1
                    /\ C17_At(fr, {"decode"}) # {}
           /\ (Lower(fr.fmt) \notin {png, jpg, jpeg, webp}
                 /\ fr.outcome.kind # "return")
                 => fr.ui.status # <<"Error: ", MsgUnsupported>>

\* The format "gif" was reported after a 503 and then a returned image.
C17_Witness ==
    \E c \in Calls :
        /\ calls[c].entry = "generate" /\ calls[c].pc = "done"
        /\ calls[c].fmt = Str(<<"g", "i", "f">>)
        /\ calls[c].resps = <<Resp(503, Junk), Resp(200, ImgA)>>
        /\ calls[c].ui.status = <<"Error: ", MsgUnsupported>>

\* s is an initial part of t.
C18_Prefix(s, t) == Len(s) <= Len(t) /\ SubSeq(t, 1, Len(s)) = s

\* C18: on the same sequence of backend outcomes the utils.py client and
\* the app.py client make the same number of network attempts and end the
\* same way: both return the payload of the same attempt, or both raise a
\* RuntimeError after the same attempt; only utils.py sleeps.
C18_SameAttemptsSameOutcome ==
    LET u == calls[1]
        a == calls[2]
    IN
    ( /\ u.pc = "done" /\ a.pc = "done"
      /\ u.entry = "utils" /\ a.entry = "app"
      /\ u.prompt = a.prompt /\ u.maxRetries = a.maxRetries
      /\ C18_Prefix(u.resps, a.resps) \/ C18_Prefix(a.resps, u.resps) )
    => /\ u.resps = a.resps
       /\ NetCalls(u) = NetCalls(a)
       /\ Posts(u) = Posts(a)
       /\ u.outcome.kind = a.outcome.kind
       /\ u.outcome.exc = a.outcome.exc
       /\ u.outcome.value = a.outcome.value
       /\ LoopEntered(u) /\ u.outcome.kind = "raise" => u.outcome.exc = "RuntimeError"
       /\ SleepDurations(a) = <<>>

\* Both clients met 404, 503, 503: each made three attempts and raised;
\* utils.py slept three times, app.py never.
C18_Witness ==
    /\ calls[1].pc = "done" /\ calls[2].pc = "done"
    /\ calls[1].entry = "utils" /\ calls[2].entry = "app"
    /\ calls[1].resps = <<Resp(404, Junk), Resp(503, Junk), Resp(503, Junk)>>
    /\ calls[2].resps = calls[1].resps
    /\ calls[1].outcome.exc = "RuntimeError" /\ calls[2].outcome.exc = "RuntimeError"
    /\ SleepDurations(calls[1]) = <<5, 10, 15>>

\* The attempt failed: a network error, an error status or a 503.
C19_Failed(r) == r.exc \/ (r.status >= 400 /\ r.status <= 599)

\* C19: for every max_retries = n >= 0, query_hf_api makes at most n network
\* calls, exactly n when every attempt fails, and with n = 0 it raises a
\* RuntimeError without a network call or a sleep.
C19_BudgetIsMaxRetries ==
    \A c \in Calls :
        LET fr == calls[c]
            n == fr.maxRetries
        IN
        LoopEntered(fr)
        => /\ NetCalls(fr) <= n /\ Len(fr.resps) <= n
           /\ (fr.pc = "done" /\ \A i \in DOMAIN fr.resps : C19_Failed(fr.resps[i]))
                 => /\ NetCalls(fr) = n
                    /\ fr.outcome.kind = "raise"
                    /\ fr.outcome.exc = "RuntimeError"
           /\ n = 0
                 => /\ fr.pc = "done"
                    /\ fr.outcome.kind = "raise"
                    /\ fr.outcome.exc = "RuntimeError"
                    /\ fr.trace = <<>>

\* query_hf_api(prompt, max_retries=0) raised without a network call.
C19_Witness ==
    \E c \in Calls :
        /\ calls[c].maxRetries = 0 /\ calls[c].pc = "done"
        /\ ~IsBlank(calls[c].prompt)
        /\ calls[c].outcome.exc = "RuntimeError"
        /\ calls[c].trace = <<>>

\* query_hf_api(prompt, max_retries=2) failed twice and raised.
C19_WitnessTwo ==
    \E c \in Calls :
        /\ calls[c].maxRetries = 2 /\ calls[c].pc = "done"
        /\ Len(calls[c].resps) = 2
        /\ \A i \in DOMAIN calls[c].resps : C19_Failed(calls[c].resps[i])
        /\ calls[c].outcome.exc = "RuntimeError"

====
